---- MODULE Spec2Model ----
(***************************************************************************)
(* Paper-Patrol, src/lambda_function.py: one invocation of lambda_handler. *)
(*                                                                         *)
(* The run is sequential; it is cut into steps at the external calls (the  *)
(* arXiv query, the completion call, the Slack webhook POST), whose        *)
(* results are the inputs of the model.                                    *)
(***************************************************************************)
EXTENDS Integers, Sequences, FiniteSets, TLC

(* Bounds of the model *)
MaxFeed == 2        \* most items the feed provider returns in one response
TicksPerDay == 2    \* instants of one calendar day: its first and its last

(***************************************************************************)
(* Python values.  A scalar is [t, v]: its type and its text.  A name that *)
(* holds a dict, None or nothing yet is [t, d]: d maps the dict's keys.    *)
(***************************************************************************)
PyNone == [t |-> "NoneType", v |-> "None"]
PyStr(s) == [t |-> "str", v |-> s]
PyTrue == [t |-> "bool", v |-> "True"]
PyFalse == [t |-> "bool", v |-> "False"]

EmptyDict == [k \in {} |-> PyNone]
Unbound == [t |-> "unbound", d |-> EmptyDict]
NoneObject == [t |-> "NoneType", d |-> EmptyDict]
Dict(d) == [t |-> "dict", d |-> d]

\* str(x), as an f-string field renders x
Render(x) == x.v

(***************************************************************************)
(* Dates.  A publication timestamp is a count of instants since day 0;     *)
(* datetime.date() keeps the calendar day and drops the time of day.       *)
(***************************************************************************)
Todays == 1..2
Ticks == 0..(3 * TicksPerDay - 1)

date(published) == published \div TicksPerDay

Papers(n) == {[k \in 1..n |-> [entry_id |-> k, published |-> f[k]]] : f \in [1..n -> Ticks]}

\* what search.results() can yield: up to MaxFeed papers, in the provider's order
Feeds == UNION {Papers(n) : n \in 0..MaxFeed}

title(paper) == "title:" \o ToString(paper.entry_id)
summary(paper) == "abstract:" \o ToString(paper.entry_id)
authors(paper) == "authors:" \o ToString(paper.entry_id)
entry_id(paper) == "http://arxiv.org/abs/" \o ToString(paper.entry_id)

(***************************************************************************)
(* Completion text.  A reply is prose (not JSON) or a JSON document: the   *)
(* literal null, or an object whose members are null or strings.           *)
(***************************************************************************)
SC == "Superconducting circuits"
RequiredKeys == {"Type", "Platform", "Topic", "Summary"}

JNull == [j |-> "null", s |-> ""]
JStr(s) == [j |-> "string", s |-> s]
NoMembers == [k \in {} |-> JNull]

Answers(k) ==
    CASE k = "Type" -> {JNull, JStr("Theory"), JStr("Experiment"), JStr("Review")}
      [] k = "Platform" -> {JNull, JStr(SC), JStr("Ion trap"), JStr("Others:NV centers")}
      [] k = "Topic" -> {JNull, JStr("Error-correction")}
      [] k = "Summary" -> {JNull, JStr("One sentence.")}

AllAnswers == UNION {Answers(k) : k \in RequiredKeys}

Members == UNION {{m \in [K -> AllAnswers] : \A k \in K : m[k] \in Answers(k)} : K \in SUBSET RequiredKeys}

NoReply == [kind |-> "none", top |-> "", members |-> NoMembers]
Prose == [kind |-> "prose", top |-> "", members |-> NoMembers]
JsonNull == [kind |-> "json", top |-> "null", members |-> NoMembers]
JsonObject(m) == [kind |-> "json", top |-> "object", members |-> m]

Replies == {Prose, JsonNull} \cup {JsonObject(m) : m \in Members}

(***************************************************************************)
(* Exceptions: the class, the argument, and for json.JSONDecodeError the   *)
(* document that did not parse (its doc attribute).                        *)
(***************************************************************************)
NoExc == [type |-> "none", arg |-> "", doc |-> NoReply]
Exc(type, arg) == [type |-> type, arg |-> arg, doc |-> NoReply]
KeyError(k) == Exc("KeyError", k)
JSONDecodeError(raw) == [type |-> "json.JSONDecodeError", arg |-> "Expecting value", doc |-> raw]

\* str(e): a KeyError shows the repr of its key
str(e) == IF e.type = "KeyError" THEN "'" \o e.arg \o "'" ELSE e.arg

Returned(value) == [raised |-> FALSE, exc |-> NoExc, value |-> value]
Raised(e, value) == [raised |-> TRUE, exc |-> e, value |-> value]

VARIABLES
    pc,               \* where the run is
    results,          \* obtain_latest_papers: the provider's response
    latest_date,      \* obtain_latest_papers: yesterday
    same_day_papers,  \* obtain_latest_papers: the papers kept
    latest_papers,    \* run: the selected papers
    i,                \* run: position of the current paper in latest_papers
    reply,            \* ask_gpt: the completion text of the current paper
    annotation,       \* run: the current paper's annotation
    branch,           \* run: the branch of lines 196-203 taken for the current paper
    blocks,           \* run: the payload built for the current paper
    posted,           \* the webhook requests made, in order
    exc,              \* the exception raised in the run, if any
    response,         \* what lambda_handler returned
    feedCalls,        \* arXiv queries made
    gptCalls,         \* completion calls made, by paper position
    slackCalls        \* webhook requests made, by paper position

\* papers_with_annotation (lines 183 and 193) is appended to and never read: it
\* decides nothing and has no variable here.
vars == <<pc, results, latest_date, same_day_papers, latest_papers, i, reply, annotation,
          branch, blocks, posted, exc, response, feedCalls, gptCalls, slackCalls>>

NoBlocks == [blocks |-> <<>>]

Init ==
    /\ pc = "start"
    /\ results = <<>>
    /\ latest_date = 0
    /\ same_day_papers = <<>>
    /\ latest_papers = <<>>
    /\ i = 0
    /\ reply = NoReply
    /\ annotation = Unbound
    /\ branch = "none"
    /\ blocks = NoBlocks
    /\ posted = <<>>
    /\ exc = NoExc
    /\ response = EmptyDict
    /\ feedCalls = 0
    /\ gptCalls = [p \in 1..MaxFeed |-> 0]
    /\ slackCalls = [p \in 1..MaxFeed |-> 0]


(***************************************************************************)
(* obtain_latest_papers, lines 14-45                                       *)
(***************************************************************************)
\* variant of SubmittedOn: the comparison of line 41 written >= (everything since latest_date)
SubmittedOn_Since(paper, day) == date(paper.published) >= day

\* lines 38-41: the paper's submission date is latest_date
SubmittedOn(paper, day) == date(paper.published) = day

\* lines 33-45: the loop over results, appending the papers of latest_date
RECURSIVE SameDayLoop(_, _, _, _)
SameDayLoop(rs, day, k, acc) ==
    IF k > Len(rs) THEN acc
    ELSE SameDayLoop(rs, day, k + 1, IF SubmittedOn(rs[k], day) THEN Append(acc, rs[k]) ELSE acc)

\* variant of Propagate: a try / except around the loop body that notes the
\* exception and goes on to the next paper
Propagate_Continue(e) ==
    /\ pc' = "for"
    /\ exc' = e

\* exceptions leave run() and reach the try of lambda_handler, lines 215-217
Propagate(e) ==
    /\ pc' = "raised"
    /\ exc' = e

ObtainLatestPapers ==
    /\ pc = "start"
    /\ feedCalls' = feedCalls + 1
    /\ \/ /\ Propagate(Exc("arxiv.HTTPError", "Page request resulted in HTTP 503"))
          /\ UNCHANGED <<results, latest_date, same_day_papers>>
       \/ \E rs \in Feeds, today \in Todays :
            /\ results' = rs
            /\ latest_date' = today - 1
            /\ same_day_papers' = SameDayLoop(rs, today - 1, 1, <<>>)
            /\ pc' = "obtained"
            /\ UNCHANGED exc
    /\ UNCHANGED <<latest_papers, i, reply, annotation, branch, blocks, posted, response,
                   gptCalls, slackCalls>>

(***************************************************************************)
(* run, lines 177-203                                                      *)
(***************************************************************************)
\* lines 182-183: obtain_latest_papers returns and its frame is gone
RunStart ==
    /\ pc = "obtained"
    /\ latest_papers' = same_day_papers
    /\ results' = <<>>
    /\ latest_date' = 0
    /\ same_day_papers' = <<>>
    /\ i' = 0
    /\ pc' = "for"
    /\ UNCHANGED <<reply, annotation, branch, blocks, posted, exc, response, feedCalls,
                   gptCalls, slackCalls>>

\* line 185: the loop takes the next paper; the names of the loop body are
\* rebound before they are read again
NextPaper ==
    /\ pc = "for"
    /\ i < Len(latest_papers)
    /\ i' = i + 1
    /\ reply' = NoReply
    /\ annotation' = Unbound
    /\ branch' = "none"
    /\ blocks' = NoBlocks
    /\ pc' = "ask"
    /\ UNCHANGED <<results, latest_date, same_day_papers, latest_papers, posted, exc,
                   response, feedCalls, gptCalls, slackCalls>>

(***************************************************************************)
(* ask_gpt, lines 67-96, and get_gpt_reply, lines 48-64                    *)
(***************************************************************************)
PyOfJson(x) == IF x.j = "null" THEN PyNone ELSE PyStr(x.s)

\* line 95: json.loads
json_loads(raw) ==
    IF raw.kind # "json" THEN Raised(JSONDecodeError(raw), Unbound)
    ELSE IF raw.top = "null" THEN Returned(NoneObject)
    ELSE Returned(Dict([k \in DOMAIN raw.members |-> PyOfJson(raw.members[k])]))

\* what the completion provider does with one request
Completions == {[ok |-> FALSE, text |-> NoReply]} \cup {[ok |-> TRUE, text |-> r] : r \in Replies}

\* variant of ask_gpt: keys the reply leaves out are filled in with None
ask_gpt_Defaults(completion) ==
    IF ~completion.ok THEN Raised(Exc("openai.error.APIError", "The server had an error"), Unbound)
    ELSE IF completion.text.kind # "json" \/ completion.text.top # "object" THEN json_loads(completion.text)
    ELSE Returned(Dict([k \in RequiredKeys |->
                          IF k \in DOMAIN completion.text.members
                          THEN PyOfJson(completion.text.members[k]) ELSE PyNone]))

ask_gpt(completion) ==
    IF ~completion.ok THEN Raised(Exc("openai.error.APIError", "The server had an error"), Unbound)
    ELSE json_loads(completion.text)

AskGpt ==
    /\ pc = "ask"
    /\ gptCalls' = [gptCalls EXCEPT ![i] = @ + 1]
    /\ \E completion \in Completions :
         LET r == ask_gpt(completion) IN
         /\ reply' = completion.text
         /\ annotation' = r.value
         /\ IF r.raised THEN Propagate(r.exc) ELSE pc' = "handle" /\ UNCHANGED exc
    /\ UNCHANGED <<results, latest_date, same_day_papers, latest_papers, i, branch, blocks,
                   posted, response, feedCalls, slackCalls>>

(***************************************************************************)
(* run, lines 187-203: annotate, choose the channel, build the payload     *)
(***************************************************************************)
AddedKeys == {"title", "authors", "abstract", "url"}

\* lines 187-192: annotation.update(...)
Update(a, paper) ==
    IF a.t # "dict" THEN Raised(Exc("AttributeError", "'NoneType' object has no attribute 'update'"), a)
    ELSE Returned(Dict([k \in DOMAIN a.d \cup AddedKeys |->
                          CASE k = "title" -> PyStr(title(paper))
                            [] k = "authors" -> PyStr(authors(paper))
                            [] k = "abstract" -> PyStr(summary(paper))
                            [] k = "url" -> PyStr(entry_id(paper))
                            [] OTHER -> a.d[k]]))

Routed(b) == [raised |-> FALSE, exc |-> NoExc, branch |-> b]
RouteRaised(e) == [raised |-> TRUE, exc |-> e, branch |-> "none"]

\* variant of Route: the tests of lines 196 and 199 in the other order
Route_TypeFirst(a) ==
    IF "Type" \notin DOMAIN a THEN RouteRaised(KeyError("Type"))
    ELSE IF a["Type"] = PyStr("Experiment") THEN Routed("pass")
    ELSE IF "Platform" \notin DOMAIN a THEN RouteRaised(KeyError("Platform"))
    ELSE IF a["Platform"] = PyStr(SC) THEN Routed("journal_hub")
    ELSE Routed("theory")

\* variant of Route: annotation.get(...) in place of the subscripts
Route_Get(a) ==
    IF "Platform" \in DOMAIN a /\ a["Platform"] = PyStr(SC) THEN Routed("journal_hub")
    ELSE IF "Type" \in DOMAIN a /\ a["Type"] = PyStr("Experiment") THEN Routed("pass")
    ELSE Routed("theory")

\* variant of Route: without the elif of lines 199-200
Route_NoSuppress(a) ==
    IF "Platform" \notin DOMAIN a THEN RouteRaised(KeyError("Platform"))
    ELSE IF a["Platform"] = PyStr(SC) THEN Routed("journal_hub")
    ELSE Routed("theory")

\* lines 196-203: the if / elif / else over annotation['Platform'] and annotation['Type']
Route(a) ==
    IF "Platform" \notin DOMAIN a THEN RouteRaised(KeyError("Platform"))
    ELSE IF a["Platform"] = PyStr(SC) THEN Routed("journal_hub")
    ELSE IF "Type" \notin DOMAIN a THEN RouteRaised(KeyError("Type"))
    ELSE IF a["Type"] = PyStr("Experiment") THEN Routed("pass")
    ELSE Routed("theory")

\* the subscripts of lines 135-169, in the order the dict display evaluates them
BlockKeys == <<"title", "Type", "Platform", "Topic", "url", "Summary">>

FirstMissing(a) ==
    LET missing == {n \in 1..Len(BlockKeys) : BlockKeys[n] \notin DOMAIN a}
    IN BlockKeys[CHOOSE n \in missing : \A m \in missing : n <= m]

mrkdwn(text) == [type |-> "mrkdwn", text |-> text]

\* paper.get(k): None for a key the dict does not have
Get(paper, k) == IF k \in DOMAIN paper THEN paper[k] ELSE PyNone

\* variant of generate_slack_message_block: paper.get(...) in place of the subscripts
generate_slack_message_block_Get(paper) ==
    Returned([blocks |-> <<
        [type |-> "header",
         text |-> [type |-> "plain_text", text |-> Render(Get(paper, "title")), emoji |-> TRUE]],
        [type |-> "section",
         fields |-> <<mrkdwn("*Type:*\n" \o Render(Get(paper, "Type"))),
                      mrkdwn("*Platform:*\n" \o Render(Get(paper, "Platform")))>>],
        [type |-> "section",
         fields |-> <<mrkdwn("*Topic:*\n" \o Render(Get(paper, "Topic"))),
                      mrkdwn("*URL:*\n" \o Render(Get(paper, "url")))>>],
        [type |-> "section",
         text |-> mrkdwn(Render(Get(paper, "Summary")))]>>])

generate_slack_message_block(paper) ==
    IF \E n \in 1..Len(BlockKeys) : BlockKeys[n] \notin DOMAIN paper
    THEN Raised(KeyError(FirstMissing(paper)), NoBlocks)
    ELSE Returned([blocks |-> <<
        [type |-> "header",
         text |-> [type |-> "plain_text", text |-> Render(paper["title"]), emoji |-> TRUE]],
        [type |-> "section",
         fields |-> <<mrkdwn("*Type:*\n" \o Render(paper["Type"])),
                      mrkdwn("*Platform:*\n" \o Render(paper["Platform"]))>>],
        [type |-> "section",
         fields |-> <<mrkdwn("*Topic:*\n" \o Render(paper["Topic"])),
                      mrkdwn("*URL:*\n" \o Render(paper["url"]))>>],
        [type |-> "section",
         text |-> mrkdwn(Render(paper["Summary"]))]>>])

HandlePaper ==
    /\ pc = "handle"
    /\ LET u == Update(annotation, latest_papers[i]) IN
       /\ annotation' = u.value
       /\ IF u.raised THEN Propagate(u.exc) /\ UNCHANGED <<branch, blocks>>
          ELSE LET rt == Route(u.value.d) IN
               /\ branch' = rt.branch
               /\ IF rt.raised THEN Propagate(rt.exc) /\ UNCHANGED blocks
                  ELSE IF rt.branch = "pass" THEN pc' = "for" /\ UNCHANGED <<blocks, exc>>
                  ELSE LET b == generate_slack_message_block(u.value.d) IN
                       /\ blocks' = b.value
                       /\ IF b.raised THEN Propagate(b.exc)
                          ELSE pc' = "post" /\ UNCHANGED exc
    /\ UNCHANGED <<results, latest_date, same_day_papers, latest_papers, i, reply, posted,
                   response, feedCalls, gptCalls, slackCalls>>

(***************************************************************************)
(* post_message_to_slack, lines 99-119                                     *)
(***************************************************************************)
Hook == "https://hooks.slack.com/services/<your-url>"
Channels == {"bottest", "journal_hub", "theory"}

\* what the webhook request can come to: an answer (of any status) or no answer
Deliveries == {"200", "500", "ConnectionError"}

post_message_to_slack(fields, channel, delivery) ==
    IF channel \notin Channels
    THEN Raised(Exc("UnboundLocalError", "local variable 'web_hook' referenced before assignment"), "")
    ELSE IF delivery = "ConnectionError"
    THEN Raised(Exc("requests.ConnectionError", "Max retries exceeded with url"), "")
    ELSE Returned(delivery)

\* variant of PostMessageToSlack: a request that got no answer is sent again
PostMessageToSlack_Retry ==
    /\ pc = "post"
    /\ slackCalls[i] < 3
    /\ \E delivery \in Deliveries :
         /\ slackCalls' = [slackCalls EXCEPT ![i] = @ + 1]
         /\ posted' = Append(posted, [paper |-> i, channel |-> branch, web_hook |-> Hook])
         /\ pc' = IF delivery = "ConnectionError" THEN "post" ELSE "for"
    /\ UNCHANGED <<results, latest_date, same_day_papers, latest_papers, i, reply, annotation,
                   branch, blocks, exc, response, feedCalls, gptCalls>>

\* lines 198 and 203: the channel of the branch taken
PostMessageToSlack ==
    /\ pc = "post"
    /\ \E delivery \in Deliveries :
         LET r == post_message_to_slack(blocks, branch, delivery) IN
         /\ IF branch \in Channels
            THEN /\ slackCalls' = [slackCalls EXCEPT ![i] = @ + 1]
                 /\ posted' = Append(posted, [paper |-> i, channel |-> branch, web_hook |-> Hook])
            ELSE UNCHANGED <<slackCalls, posted>>
         /\ IF r.raised THEN Propagate(r.exc) ELSE pc' = "for" /\ UNCHANGED exc
    /\ UNCHANGED <<results, latest_date, same_day_papers, latest_papers, i, reply, annotation,
                   branch, blocks, response, feedCalls, gptCalls>>

(***************************************************************************)
(* lambda_handler, lines 206-220                                           *)
(***************************************************************************)
\* line 220: run() returned
LambdaHandlerReturn ==
    /\ pc = "for"
    /\ i = Len(latest_papers)
    /\ response' = ("status" :> PyStr("True"))
    /\ pc' = "returned"
    /\ UNCHANGED <<results, latest_date, same_day_papers, latest_papers, i, reply, annotation,
                   branch, blocks, posted, exc, feedCalls, gptCalls, slackCalls>>

\* variant of LambdaHandlerExcept: the except clause returns the success result
LambdaHandlerExcept_Success ==
    /\ pc = "raised"
    /\ response' = ("status" :> PyStr("True"))
    /\ pc' = "returned"
    /\ UNCHANGED <<results, latest_date, same_day_papers, latest_papers, i, reply, annotation,
                   branch, blocks, posted, exc, feedCalls, gptCalls, slackCalls>>

\* lines 217-218: run() raised
LambdaHandlerExcept ==
    /\ pc = "raised"
    /\ response' = ("status" :> PyFalse) @@ ("error" :> PyStr(str(exc)))
    /\ pc' = "returned"
    /\ UNCHANGED <<results, latest_date, same_day_papers, latest_papers, i, reply, annotation,
                   branch, blocks, posted, exc, feedCalls, gptCalls, slackCalls>>

Next ==
    \/ ObtainLatestPapers
    \/ RunStart
    \/ NextPaper
    \/ AskGpt
    \/ HandlePaper
    \/ PostMessageToSlack
    \/ LambdaHandlerReturn
    \/ LambdaHandlerExcept

Spec == Init /\ [][Next]_vars

(***************************************************************************)
(* Properties                                                              *)
(***************************************************************************)
\* lines 187-192 have run for the current paper: its annotation carries the added keys
Handled == annotation.t = "dict" /\ AddedKeys \subseteq DOMAIN annotation.d

Has(k) == k \in DOMAIN annotation.d
Is(k, text) == Has(k) /\ annotation.d[k] = PyStr(text)

Ended == pc \in {"raised", "returned"}

PostedFor(p) == {n \in 1..Len(posted) : posted[n].paper = p}

\* C1: an annotation whose Platform is 'Superconducting circuits' takes the
\* journal_hub branch whatever its Type is (also Type 'Experiment'): it is never
\* passed over and never sent to theory.
C1_Rule1Dominates ==
    (Handled /\ Is("Platform", SC)) =>
        /\ branch = "journal_hub"
        /\ \A n \in PostedFor(i) : posted[n].channel = "journal_hub"

C1_Witness ==
    /\ Handled
    /\ Is("Platform", SC)
    /\ Is("Type", "Experiment")
    /\ branch = "journal_hub"
    /\ PostedFor(i) # {}

C3_StatusIsBoolean ==
    pc = "returned" =>
        IF exc # NoExc /\ i = 0
        THEN response["status"] = PyFalse /\ "error" \in DOMAIN response
        ELSE response["status"] = PyTrue /\ "error" \notin DOMAIN response

OnDay(tick, d) == d * TicksPerDay <= tick /\ tick < (d + 1) * TicksPerDay

Malformed(r) == r.kind = "prose" \/ (r.kind = "json" /\ ~(RequiredKeys \subseteq DOMAIN r.members))

FormatterCalled == Handled /\ branch \in {"journal_hub", "theory"}

Shown(a, k) == IF a[k] = PyNone THEN "None" ELSE a[k].v

\* the payload of four blocks for dict a
FourBlocks(b, a) ==
    /\ Len(b.blocks) = 4
    /\ b.blocks[1].type = "header" /\ b.blocks[1].text.text = a["title"].v
    /\ b.blocks[2].fields[1].text = "*Type:*\n" \o Shown(a, "Type")
    /\ b.blocks[2].fields[2].text = "*Platform:*\n" \o Shown(a, "Platform")
    /\ b.blocks[3].fields[1].text = "*Topic:*\n" \o Shown(a, "Topic")
    /\ b.blocks[3].fields[2].text = "*URL:*\n" \o a["url"].v
    /\ b.blocks[4].text.text = Shown(a, "Summary")

FormatsOrKeyError(a, r) ==
    IF RequiredKeys \subseteq DOMAIN a
    THEN ~r.raised /\ FourBlocks(r.value, a)
    ELSE /\ r.raised
         /\ r.value = NoBlocks
         /\ \E k \in RequiredKeys \ DOMAIN a : r.exc = KeyError(k)

\* the annotations lines 187-192 can make for a paper
Annotated(paper) == {Update(json_loads(JsonObject(m)).value, paper).value.d : m \in Members}

C8_FeedFailureIsFatal ==
    (exc # NoExc /\ i = 0) =>
        /\ Ended
        /\ feedCalls = 1
        /\ \A p \in 1..MaxFeed : gptCalls[p] = 0 /\ slackCalls[p] = 0
        /\ posted = <<>>
        /\ pc = "returned" =>
             /\ response["status"] = PyFalse
             /\ "error" \in DOMAIN response
             /\ response["error"] = PyStr(exc.arg)

C8_Witness ==
    /\ pc = "returned"
    /\ exc.type = "arxiv.HTTPError"
    /\ i = 0
    /\ response["status"] = PyFalse

\* C9: in one run the feed is queried at most once, and for each selected paper
\* the completion provider is called at most once and the webhook at most once,
\* whatever the calls came to.
C9_NoRetries ==
    /\ feedCalls <= 1
    /\ \A p \in 1..MaxFeed :
         /\ gptCalls[p] <= 1
         /\ slackCalls[p] <= 1
         /\ Cardinality(PostedFor(p)) = slackCalls[p]

C9_Witness ==
    /\ pc = "returned"
    /\ exc.type = "requests.ConnectionError"
    /\ i = 2
    /\ slackCalls[1] = 1
    /\ slackCalls[2] = 1
    /\ gptCalls[2] = 1

\* C10: a webhook request for a paper is made only once the paper's annotation
\* has been extracted; it goes to journal_hub exactly when the Platform is
\* 'Superconducting circuits', to theory exactly when the Platform is something
\* else and the Type is not 'Experiment', never to bottest; and a paper with Type
\* 'Experiment' and another Platform gets no request.
C10_DeliveriesFollowRouting ==
    /\ \A n \in 1..Len(posted) :
         /\ posted[n].channel \in {"journal_hub", "theory"}
         /\ posted[n].paper <= i
         /\ gptCalls[posted[n].paper] = 1
         /\ posted[n].paper = i =>
              /\ reply.kind = "json"
              /\ Handled
              /\ Has("Platform")
              /\ posted[n].channel = "journal_hub" <=> Is("Platform", SC)
              /\ posted[n].channel = "theory" <=>
                   (~Is("Platform", SC) /\ Has("Type") /\ ~Is("Type", "Experiment"))
    /\ (Handled /\ Has("Platform") /\ ~Is("Platform", SC) /\ Is("Type", "Experiment")) =>
         /\ pc # "post"
         /\ slackCalls[i] = 0
         /\ PostedFor(i) = {}

C10_Witness ==
    /\ Len(posted) = 2
    /\ posted[1].channel = "journal_hub"
    /\ posted[2].channel = "theory"
    /\ posted[2].paper = i
    /\ annotation.d["Platform"] = PyStr("Ion trap")
    /\ annotation.d["Type"] = PyNone

====
